---- MODULE Spec2Model ----
(***************************************************************************)
(* closure-tree: the closure-table repository (src/src/repository.rs) and   *)
(* the advisory-lock transaction guard (src/src/lock.rs), run by a small    *)
(* number of concurrent callers against one PostgreSQL store.               *)
(*                                                                          *)
(* The store is modelled at READ COMMITTED, the PostgreSQL default: a       *)
(* statement sees every committed row plus the rows its own transaction     *)
(* wrote.  pg_advisory_lock / pg_advisory_unlock are the session-level      *)
(* advisory lock: they take effect at once, not at transaction end.  Each   *)
(* caller runs on its own pooled connection (session).  Every await of the  *)
(* code is one action, so callers interleave between store round trips.     *)
(***************************************************************************)
EXTENDS Integers, Sequences, FiniteSets, TLC

\* ---------------------------------------------------------------- bounds
Procs == {1, 2}                 \* concurrent callers, one session each
Names == {"a", "b"}             \* segment names
MaxPathLen == 3                 \* longest segment list a caller passes
MaxCalls == 2                   \* find_or_create_by_path calls started in a run of Spec
MaxOkCalls == 3                 \* the same, in a run of SpecOk
MaxReadCalls == 2               \* the same, in a run of SpecRead
MaxTreeCalls == 2               \* the same, in a run of SpecTree
MaxCancelCalls == 2             \* the same, in a run of SpecCancel
MaxLockCalls == 2               \* the same, in a run of SpecLock
MaxFail == 1                    \* injected store failures in a run
MaxReads == 1                   \* read-only operations issued in a run
MaxRepeatCalls == 2             \* find_or_create_by_path calls started in a run of SpecRepeat
MaxRepeatReads == 2             \* read-only operations issued in a run of SpecRepeat
MaxLiveCalls == 2               \* find_or_create_by_path calls started in a run of SpecLive

NoId == 0                       \* Option::None for an id / a model
Backends == {"Postgres", "Sqlite"}
Strategy == "Namespaced"        \* ClosureTreeConfig::new: the default lock strategy

\* AdvisoryLockStrategy
AdvisoryLockStrategies == {"Disabled", "Namespaced"}

\* Option<OrderStrategy>.  The numeric columns a NumericColumn strategy can
\* name are the integer columns of the node table: id and parent_id.
NoOrder == [kind |-> "None", column |-> ""]
OrderStrategies ==
  {NoOrder, [kind |-> "Manual", column |-> ""],
   [kind |-> "NumericColumn", column |-> "id"],
   [kind |-> "NumericColumn", column |-> "parent_id"]}

\* ------------------------------------------------------------ the lock key
\* Strings are sequences of byte values.  A 32-bit word is a function from
\* 1..32 to {0, 1}, least significant bit first.
NameBytes == {97, 98, 110}      \* the bytes of entity and hierarchy names: a, b, n

KeyNames == {<<x>> : x \in NameBytes} \cup {<<x, y>> : x, y \in NameBytes}

ByteBits(b) == [i \in 1..32 |-> IF i <= 8 THEN (b \div 2^(i - 1)) % 2 ELSE 0]

XorBits(a, b) == [i \in 1..32 |-> (a[i] + b[i]) % 2]

ShiftRight(a) == [i \in 1..32 |-> IF i < 32 THEN a[i + 1] ELSE 0]

\* The reflected CRC-32 (IEEE) polynomial edb88320, as hexadecimal digits.
PolyHex == <<14, 13, 11, 8, 8, 3, 2, 0>>

PolyBits ==
  [i \in 1..32 |-> (PolyHex[8 - ((i - 1) \div 4)] \div 2^((i - 1) % 4)) % 2]

\* Hasher: the eight shift steps of one byte
RECURSIVE crc_steps(_, _)
crc_steps(c, k) ==
  IF k = 0 THEN c
  ELSE crc_steps(IF c[1] = 1 THEN XorBits(ShiftRight(c), PolyBits) ELSE ShiftRight(c), k - 1)

\* Hasher::update
RECURSIVE update(_, _)
update(c, bytes) ==
  IF bytes = <<>> THEN c
  ELSE update(crc_steps(XorBits(c, ByteBits(Head(bytes))), 8), Tail(bytes))

\* Hasher::new: the register starts as all ones
Hasher_new == [i \in 1..32 |-> 1]

\* Hasher::finalize: the complement of the register
finalize(c) == [i \in 1..32 |-> 1 - c[i]]

\* The eight hexadecimal digits of a word, most significant first.
HexDigits(c) ==
  [k \in 1..8 |-> LET lo == (8 - k) * 4
                  IN c[lo + 1] + 2 * c[lo + 2] + 4 * c[lo + 3] + 8 * c[lo + 4]]

RECURSIVE StripZeros(_)
StripZeros(ds) ==
  IF Len(ds) > 1 /\ Head(ds) = 0 THEN StripZeros(Tail(ds)) ELSE ds

HexChar(d) == IF d < 10 THEN 48 + d ELSE 87 + d

\* format!("{crc:x}"): lower-case hexadecimal, no padding, no leading zeros
LowerHex(c) ==
  LET ds == StripZeros(HexDigits(c))
  IN [k \in 1..Len(ds) |-> HexChar(ds[k])]

\* "closure-tree::"
KeyPrefix == <<99, 108, 111, 115, 117, 114, 101, 45, 116, 114, 101, 101, 58, 58>>

\* "::"
KeySeparator == <<58, 58>>

\* AdvisoryLockKey::derived_from: the CRC-32 of entity, "/", hierarchy, and
\* format!("closure-tree::{entity}::{hierarchy}::{crc:x}")
derived_from(entity, hierarchy) ==
  LET crc == finalize(update(update(update(Hasher_new, entity), <<47>>), hierarchy))
  IN KeyPrefix \o entity \o KeySeparator \o hierarchy \o KeySeparator \o LowerHex(crc)

\* ClosureTreeConfig::new(entity_name, hierarchy_name): no order strategy, the
\* Namespaced lock with the derived key.
new(entity_name, hierarchy_name) ==
  [entity_name |-> entity_name, hierarchy_name |-> hierarchy_name,
   order_strategy |-> NoOrder, advisory_lock_strategy |-> Strategy,
   advisory_lock_key |-> derived_from(entity_name, hierarchy_name)]

\* ClosureTreeConfig::new for the one model type of the tree: entity "n",
\* hierarchy "nn".
ClosureTreeConfig_new == new(<<110>>, <<110, 110>>)

\* A plausible slip: the backend test is left out.
ensure_postgres_any(db) == TRUE

\* ensure_postgres: Ok(()) on a PostgreSQL connection, else UnsupportedBackend
ensure_postgres(db) == db = "Postgres"

RECURSIVE SeqsUpTo(_)
SeqsUpTo(n) ==
  IF n = 0 THEN {<<>>}
  ELSE LET shorter == SeqsUpTo(n - 1)
       IN shorter \cup {Append(s, x) : s \in {t \in shorter : Len(t) = n - 1}, x \in Names}

Paths == SeqsUpTo(MaxPathLen)

VARIABLES
  nodes,           \* committed rows of the node table
  hierarchy,       \* committed rows of the hierarchy table
  nextId,          \* the SERIAL sequence behind nodes.id (never rolled back)
  held,            \* held[s]: times session s holds the advisory lock
  pc,              \* pc[p]: the await point caller p is at ("idle": not in a call)
  segments,        \* segments[p]: argument of p's current (or last) call
  backend,         \* backend[p]: backend of the connection that call was given
  idx,             \* idx[p]: 1-based position of the segment being processed
  current_parent,  \* find_or_create_by_path_on: current_parent (NoId = None)
  current,         \* find_or_create_by_path_on: current (NoId = None)
  created,         \* insert_child: id of the model returned by active.insert
  rows,            \* insert_hierarchy_rows: rows built so far
  err,             \* the walk's error, carried through the rollback path
  txn,             \* txn[p]: "none" | "open" | "committed" | "rolledback"
  txNodes,         \* node rows written by p's open transaction
  txHier,          \* hierarchy rows written by p's open transaction
  stmts,           \* stmts[p]: store round trips p's current (or last) call issued
  result,          \* result[p]: [kind, id] returned by p's last call
  prev,            \* prev[p]: id the preceding call returned if it was Ok with the same segments
  seen,            \* seen[p]: committed node count when p's last call returned
  readRes,         \* what the last read-only operation was given and returned
  calls,           \* calls started so far
  fails,           \* injected store failures so far
  reads,           \* read-only operations issued so far
  config,          \* M::closure_tree_config(): the ClosureTreeConfig of the model type
  guard_result     \* guard_result[p]: what LockedTransaction::commit or rollback returned to p's call

vars == <<nodes, hierarchy, nextId, held, pc, segments, backend, idx, current_parent,
          current, created, rows, err, txn, txNodes, txHier, stmts, result,
          prev, seen, readRes, calls, fails, reads, config, guard_result>>

\* ------------------------------------------------------------ the tables
\* tests/postgres.rs: nodes(id SERIAL PRIMARY KEY, parent_id, name)
Node(id, parent_id, name) == [id |-> id, parent_id |-> parent_id, name |-> name]

\* M::hierarchy_build_row(ancestor, descendant, generations)
hierarchy_build_row(ancestor, descendant, generations) ==
  [ancestor_id |-> ancestor, descendant_id |-> descendant, generations |-> generations]

\* A plausible slip: the ancestors' rows are copied without the + 1.
ancestor_rows_same_generation(table, parent_id, model_id) ==
  {hierarchy_build_row(h.ancestor_id, model_id, h.generations)
     : h \in {a \in table : a.descendant_id = parent_id}}

\* insert_hierarchy_rows: the rows whose descendant is the parent (its whole
\* ancestor set, itself included), each rebuilt for the new model one
\* generation further.
ancestor_rows(table, parent_id, model_id) ==
  {hierarchy_build_row(h.ancestor_id, model_id, h.generations + 1)
     : h \in {a \in table : a.descendant_id = parent_id}}

\* What a statement of p's transaction sees at READ COMMITTED.
VisibleNodes(p) == nodes \cup txNodes[p]
VisibleHier(p) == hierarchy \cup txHier[p]

\* A plausible slip: the parent filter is left out of the condition.
find_child_by_name_any_parent(table, parent_id, name) ==
  {m \in table : m.name = name}

\* find_child_by_name: the rows matching name = $1 AND parent_id = $2 (IS NULL
\* for None); .one() returns any one of them, or None when there is none.
find_child_by_name(table, parent_id, name) ==
  {m \in table : m.name = name /\ m.parent_id = parent_id}

Ok(id) == [kind |-> "Ok", id |-> id]
Err(kind) == [kind |-> kind, id |-> NoId]

\* ------------------------------------------------------ read-only operations
\* A read-only operation runs its statements on the pool, outside any
\* transaction, so it reads the committed tables.  readRes records the
\* operation, its argument, the backend of the connection it was given, the
\* kind of its result, the value returned, the number of statements it issued,
\* and the committed node count it read at.
NoRead == [op |-> "none", arg |-> <<>>, db |-> "none", kind |-> "none", out |-> <<>>,
           matched |-> <<>>, lookups |-> 0, queries |-> 0, at |-> 0]

\* The operation returned Ok(out) after issuing that many statements.
ReadOk(op, arg, db, out, queries) ==
  [op |-> op, arg |-> arg, db |-> db, kind |-> "Ok", out |-> out, matched |-> <<>>,
   lookups |-> 0, queries |-> queries, at |-> Cardinality(nodes)]

\* Self::ensure_postgres(conn)? returned the error.
Unsupported(op, arg, db) ==
  [NoRead EXCEPT !.op = op, !.arg = arg, !.db = db, !.kind = "UnsupportedBackend"]

\* What a read-only operation leaves alone.
ReadFrame ==
  UNCHANGED <<nodes, hierarchy, nextId, held, pc, segments, backend, idx, current_parent,
              current, created, rows, err, txn, txNodes, txHier, stmts, result,
              prev, seen, calls, fails, config, guard_result>>

\* A plausible slip: an unmatched segment is skipped (continue) instead of
\* ending the walk with None.
RECURSIVE find_by_path_from_skipping(_, _, _)
find_by_path_from_skipping(segs, i, matched) ==
  LET last == IF matched = <<>> THEN NoId ELSE matched[Len(matched)]
  IN IF i > Len(segs)
       THEN {[out |-> last, matched |-> matched, lookups |-> Len(segs)]}
       ELSE LET node == find_child_by_name(nodes, last, segs[i])
            IN IF node = {}
                 THEN find_by_path_from_skipping(segs, i + 1, matched)
                 ELSE UNION {find_by_path_from_skipping(segs, i + 1, Append(matched, m.id))
                               : m \in node}

\* find_by_path_on, from segment i on: current_parent is the last entry of
\* matched (None before the first segment).  Each outcome is the model returned,
\* the models matched on the way, and the number of find_child_by_name calls.
RECURSIVE find_by_path_from(_, _, _)
find_by_path_from(segs, i, matched) ==
  IF i > Len(segs)
    THEN {[out |-> matched[Len(matched)], matched |-> matched, lookups |-> Len(segs)]}
    ELSE LET current_parent_ == IF i = 1 THEN NoId ELSE matched[i - 1]
             node == find_child_by_name(nodes, current_parent_, segs[i])
         IN IF node = {}
              THEN {[out |-> NoId, matched |-> matched, lookups |-> i]}
              ELSE UNION {find_by_path_from(segs, i + 1, Append(matched, m.id)) : m \in node}

\* find_by_path_on
find_by_path_on(segs) ==
  IF segs = <<>>
    THEN {[out |-> NoId, matched |-> <<>>, lookups |-> 0]}
    ELSE find_by_path_from(segs, 1, <<>>)

\* ORDER BY name ASC: the order of the name column
NameRank(name) == CASE name = "a" -> 1 [] name = "b" -> 2 [] OTHER -> 3

NodeById(id) == CHOOSE m \in nodes : m.id = id

\* The orders in which the store may return the rows with these ids under
\* ORDER BY name ASC: rows that tie on the name come in any order.
OrderedByName(ids) ==
  {s \in [1..Cardinality(ids) -> ids] :
     /\ \A i, j \in 1..Cardinality(ids) : i # j => s[i] # s[j]
     /\ \A i, j \in 1..Cardinality(ids) :
          i < j => NameRank(NodeById(s[i]).name) <= NameRank(NodeById(s[j]).name)}

\* The value row m has in a numeric column of the node table.  ASC puts NULL
\* last: it sorts as a value above every id.
ColumnValue(m, column) ==
  CASE column = "id" -> m.id
    [] column = "parent_id" -> IF m.parent_id = NoId THEN nextId ELSE m.parent_id
    [] OTHER -> NoId

\* order_by_asc(Expr::cust(column)) when the strategy is NumericColumn, then
\* order_by_asc(name_column): row m may come before row n.
InOrder(m, n, strategy) ==
  LET km == IF strategy.kind = "NumericColumn" THEN ColumnValue(m, strategy.column) ELSE NoId
      kn == IF strategy.kind = "NumericColumn" THEN ColumnValue(n, strategy.column) ELSE NoId
  IN km < kn \/ (km = kn /\ NameRank(m.name) <= NameRank(n.name))

\* The orders in which the store may return the rows with these ids under that
\* ORDER BY: rows that tie on every key come in any order.
Ordered(ids, strategy) ==
  {s \in [1..Cardinality(ids) -> ids] :
     /\ \A i, j \in 1..Cardinality(ids) : i # j => s[i] # s[j]
     /\ \A i, j \in 1..Cardinality(ids) :
          i < j => InOrder(NodeById(s[i]), NodeById(s[j]), strategy)}

\* A plausible slip: the generations > 0 filter is not applied.
descendants_with_conn_keeps_root(ancestor_id, exclude_root) ==
  LET hrows == {h \in hierarchy : h.ancestor_id = ancestor_id}
      descendant_ids == {h.descendant_id : h \in hrows}
  IN IF descendant_ids = {}
       THEN {<<>>}
       ELSE Ordered({m.id : m \in {n \in nodes : n.id \in descendant_ids}},
                    config.order_strategy)

\* descendants_with_conn: the hierarchy rows of the ancestor (generations > 0
\* with exclude_root), then the node rows with those ids, ordered by the
\* numeric column of a NumericColumn strategy and then by name; no second
\* query when no row matched.
descendants_with_conn(ancestor_id, exclude_root) ==
  LET hrows == {h \in hierarchy : /\ h.ancestor_id = ancestor_id
                                  /\ (exclude_root => h.generations > 0)}
      descendant_ids == {h.descendant_id : h \in hrows}
  IN IF descendant_ids = {}
       THEN {<<>>}
       ELSE Ordered({m.id : m \in {n \in nodes : n.id \in descendant_ids}},
                    config.order_strategy)

\* descendants_with_conn: the statements it issues
descendants_queries(ancestor_id, exclude_root) ==
  IF {h \in hierarchy : /\ h.ancestor_id = ancestor_id
                        /\ (exclude_root => h.generations > 0)} = {}
    THEN 1 ELSE 2

\* A plausible slip: the configured numeric column is not applied.
children_by_name_only(id) ==
  OrderedByName({m.id : m \in {n \in nodes : n.parent_id = id}})

\* children: the rows whose parent column equals model.id(), ordered by the
\* numeric column of a NumericColumn strategy and then by name
children(id) ==
  Ordered({m.id : m \in {n \in nodes : n.parent_id = id}}, config.order_strategy)

\* A plausible slip: the query also sees the rows that open transactions have
\* written and not committed.
roots_uncommitted ==
  LET all == nodes \cup UNION {txNodes[p] : p \in Procs}
      ids == {m.id : m \in {n \in all : n.parent_id = NoId}}
      name(id) == (CHOOSE m \in all : m.id = id).name
  IN {s \in [1..Cardinality(ids) -> ids] :
        /\ \A i, j \in 1..Cardinality(ids) : i # j => s[i] # s[j]
        /\ \A i, j \in 1..Cardinality(ids) :
             i < j => NameRank(name(s[i])) <= NameRank(name(s[j]))}

\* roots: the rows whose parent column is NULL, ordered by name
roots ==
  OrderedByName({m.id : m \in {n \in nodes : n.parent_id = NoId}})

\* A plausible slip: the model is left to the query (exclude_root = false)
\* instead of being pushed in front of the descendants.
self_and_descendants_in_query(id) == descendants_with_conn(id, FALSE)

\* self_and_descendants: nodes.push(model.clone()), then append the descendants
self_and_descendants(id) ==
  {<<id>> \o d : d \in descendants_with_conn(id, TRUE)}

\* find_by_path
FindByPath(segs, db) ==
  /\ reads' = reads + 1
  /\ IF ~ensure_postgres(db)
       THEN readRes' = Unsupported("find_by_path", segs, db)
       ELSE \E r \in find_by_path_on(segs) :
              readRes' = [ReadOk("find_by_path", segs, db, r.out, r.lookups)
                            EXCEPT !.matched = r.matched, !.lookups = r.lookups]
  /\ ReadFrame

\* descendants, given the model of a committed node
Descendants(id, db) ==
  /\ reads' = reads + 1
  /\ IF ~ensure_postgres(db)
       THEN readRes' = Unsupported("descendants", id, db)
       ELSE \E r \in descendants_with_conn(id, TRUE) :
              readRes' = ReadOk("descendants", id, db, r, descendants_queries(id, TRUE))
  /\ ReadFrame

\* parent, given the model of a committed node: the row with id
\* model.parent_id(), or None with no query for a root
Parent(id, db) ==
  /\ reads' = reads + 1
  /\ IF ~ensure_postgres(db)
       THEN readRes' = Unsupported("parent", id, db)
       ELSE LET parent_id == NodeById(id).parent_id
            IN IF parent_id = NoId
                 THEN readRes' = ReadOk("parent", id, db, NoId, 0)
                 ELSE \E m \in {n \in nodes : n.id = parent_id} :
                        readRes' = ReadOk("parent", id, db, m.id, 1)
  /\ ReadFrame

\* children, given the model of a committed node
Children(id, db) ==
  /\ reads' = reads + 1
  /\ IF ~ensure_postgres(db)
       THEN readRes' = Unsupported("children", id, db)
       ELSE \E r \in children(id) : readRes' = ReadOk("children", id, db, r, 1)
  /\ ReadFrame

\* roots
Roots(db) ==
  /\ reads' = reads + 1
  /\ IF ~ensure_postgres(db)
       THEN readRes' = Unsupported("roots", NoId, db)
       ELSE \E r \in roots : readRes' = ReadOk("roots", NoId, db, r, 1)
  /\ ReadFrame

\* self_and_descendants, given the model of a committed node
SelfAndDescendants(id, db) ==
  /\ reads' = reads + 1
  /\ IF ~ensure_postgres(db)
       THEN readRes' = Unsupported("self_and_descendants", id, db)
       ELSE \E r \in self_and_descendants(id) :
              readRes' = ReadOk("self_and_descendants", id, db, r,
                                descendants_queries(id, TRUE))
  /\ ReadFrame

\* ----------------------------------------------------------------- Init
Init ==
  /\ nodes = {}
  /\ hierarchy = {}
  /\ nextId = 1
  /\ held = [p \in Procs |-> 0]
  /\ pc = [p \in Procs |-> "idle"]
  /\ segments = [p \in Procs |-> <<>>]
  /\ backend = [p \in Procs |-> "Postgres"]
  /\ idx = [p \in Procs |-> 1]
  /\ current_parent = [p \in Procs |-> NoId]
  /\ current = [p \in Procs |-> NoId]
  /\ created = [p \in Procs |-> NoId]
  /\ rows = [p \in Procs |-> {}]
  /\ err = [p \in Procs |-> "none"]
  /\ txn = [p \in Procs |-> "none"]
  /\ txNodes = [p \in Procs |-> {}]
  /\ txHier = [p \in Procs |-> {}]
  /\ stmts = [p \in Procs |-> <<>>]
  /\ result = [p \in Procs |-> Err("none")]
  /\ prev = [p \in Procs |-> NoId]
  /\ seen = [p \in Procs |-> 0]
  /\ readRes = NoRead
  /\ calls = 0
  /\ fails = 0
  /\ reads = 0
  /\ guard_result = [p \in Procs |-> "none"]
  /\ config = ClosureTreeConfig_new

\* ------------------------------------------------------- shared fragments
Issue(p, s) == stmts' = [stmts EXCEPT ![p] = Append(@, s)]

CanFail == fails < MaxFail
Fail == fails' = fails + 1

\* The call returns r to its caller; the locals of the walk are dropped.
Return(p, r) ==
  /\ pc' = [pc EXCEPT ![p] = "idle"]
  /\ result' = [result EXCEPT ![p] = r]
  /\ idx' = [idx EXCEPT ![p] = 1]
  /\ current_parent' = [current_parent EXCEPT ![p] = NoId]
  /\ current' = [current EXCEPT ![p] = NoId]
  /\ created' = [created EXCEPT ![p] = NoId]
  /\ rows' = [rows EXCEPT ![p] = {}]
  /\ err' = [err EXCEPT ![p] = "none"]

\* The transaction ends without committing: txn.rollback(), or the drop of an
\* open DatabaseTransaction.  Its writes are discarded.
Discard(p) ==
  /\ txn' = [txn EXCEPT ![p] = "rolledback"]
  /\ txNodes' = [txNodes EXCEPT ![p] = {}]
  /\ txHier' = [txHier EXCEPT ![p] = {}]

\* find_or_create_with_guard, Err(err) arm: a failed walk goes to guard.rollback().
ToRollback(p, kind) ==
  /\ pc' = [pc EXCEPT ![p] = IF config.advisory_lock_strategy = "Namespaced" THEN "rb_release" ELSE "rollback"]
  /\ err' = [err EXCEPT ![p] = kind]

\* A plausible slip: the loop keeps the id but never the model, so current is
\* still None after the last segment.
NextSegment_drops_model(p, m) ==
  /\ current_parent' = [current_parent EXCEPT ![p] = m]
  /\ current' = current
  /\ IF idx[p] < Len(segments[p])
       THEN /\ idx' = [idx EXCEPT ![p] = @ + 1]
            /\ pc' = [pc EXCEPT ![p] = "lookup"]
            /\ err' = err
       ELSE /\ idx' = idx
            /\ IF current[p] = NoId
                 THEN ToRollback(p, "Invariant")
                 ELSE /\ pc' = [pc EXCEPT ![p] =
                                  IF config.advisory_lock_strategy = "Namespaced" THEN "release" ELSE "commit"]
                      /\ err' = err

\* A plausible slip: the loop keeps the model but not its id, so the next
\* lookup filters on the parent of the segment before.
NextSegment_keeps_parent(p, m) ==
  /\ current_parent' = current_parent
  /\ current' = [current EXCEPT ![p] = m]
  /\ IF idx[p] < Len(segments[p])
       THEN /\ idx' = [idx EXCEPT ![p] = @ + 1]
            /\ pc' = [pc EXCEPT ![p] = "lookup"]
            /\ err' = err
       ELSE /\ idx' = idx
            /\ pc' = [pc EXCEPT ![p] =
                        IF config.advisory_lock_strategy = "Namespaced" THEN "release" ELSE "commit"]
            /\ err' = err

\* The for loop of find_or_create_by_path_on moves to the next segment with
\* model m as current; after the last one, current.ok_or_else(invariant) and
\* the Ok(model) arm of find_or_create_with_guard lead to guard.commit().
NextSegment(p, m) ==
  /\ current_parent' = [current_parent EXCEPT ![p] = m]
  /\ current' = [current EXCEPT ![p] = m]
  /\ IF idx[p] < Len(segments[p])
       THEN /\ idx' = [idx EXCEPT ![p] = @ + 1]
            /\ pc' = [pc EXCEPT ![p] = "lookup"]
            /\ err' = err
       ELSE /\ idx' = idx
            /\ IF m = NoId
                 THEN ToRollback(p, "Invariant")
                 ELSE /\ pc' = [pc EXCEPT ![p] =
                                  IF config.advisory_lock_strategy = "Namespaced" THEN "release" ELSE "commit"]
                      /\ err' = err

\* -------------------------------------------------- find_or_create_by_path
\* A plausible slip: the empty check comes after LockedTransaction::acquire,
\* so an empty path opens a transaction before it is rejected.
Call_checks_empty_late(p, segs, db) ==
  /\ pc[p] = "idle"
  /\ calls' = calls + 1
  /\ segments' = [segments EXCEPT ![p] = segs]
  /\ backend' = [backend EXCEPT ![p] = db]
  /\ prev' = [prev EXCEPT ![p] =
                IF result[p].kind = "Ok" /\ segments[p] = segs THEN result[p].id ELSE NoId]
  /\ IF ~ensure_postgres(db)
       THEN /\ result' = [result EXCEPT ![p] = Err("UnsupportedBackend")]
            /\ seen' = [seen EXCEPT ![p] = Cardinality(nodes)]
            /\ stmts' = [stmts EXCEPT ![p] = <<>>]
            /\ txn' = [txn EXCEPT ![p] = "none"]
            /\ pc' = pc
       ELSE IF segs = <<>>
       THEN /\ result' = [result EXCEPT ![p] = Err("EmptyPath")]
            /\ seen' = [seen EXCEPT ![p] = Cardinality(nodes)]
            /\ stmts' = [stmts EXCEPT ![p] = <<"begin", "rollback">>]
            /\ txn' = [txn EXCEPT ![p] = "rolledback"]
            /\ pc' = pc
       ELSE /\ pc' = [pc EXCEPT ![p] = "begin"]
            /\ stmts' = [stmts EXCEPT ![p] = <<>>]
            /\ txn' = [txn EXCEPT ![p] = "none"]
            /\ UNCHANGED <<result, seen>>
  /\ guard_result' = [guard_result EXCEPT ![p] = "none"]
  /\ UNCHANGED <<nodes, hierarchy, nextId, held, idx, current_parent, current,
                 created, rows, err, txNodes, txHier, fails,
                 readRes, reads, config>>

\* ensure_postgres, the empty check, and the call of LockedTransaction::acquire.
Call(p, segs, db) ==
  /\ pc[p] = "idle"
  /\ calls' = calls + 1
  /\ segments' = [segments EXCEPT ![p] = segs]
  /\ backend' = [backend EXCEPT ![p] = db]
  /\ stmts' = [stmts EXCEPT ![p] = <<>>]
  /\ txn' = [txn EXCEPT ![p] = "none"]
  /\ prev' = [prev EXCEPT ![p] =
                IF result[p].kind = "Ok" /\ segments[p] = segs THEN result[p].id ELSE NoId]
  /\ IF ~ensure_postgres(db)
       THEN /\ result' = [result EXCEPT ![p] = Err("UnsupportedBackend")]
            /\ seen' = [seen EXCEPT ![p] = Cardinality(nodes)]
            /\ pc' = pc
       ELSE IF segs = <<>>
       THEN /\ result' = [result EXCEPT ![p] = Err("EmptyPath")]
            /\ seen' = [seen EXCEPT ![p] = Cardinality(nodes)]
            /\ pc' = pc
       ELSE /\ pc' = [pc EXCEPT ![p] = "begin"]
            /\ UNCHANGED <<result, seen>>
  /\ guard_result' = [guard_result EXCEPT ![p] = "none"]
  /\ UNCHANGED <<nodes, hierarchy, nextId, held, idx, current_parent, current,
                 created, rows, err, txNodes, txHier, fails,
                 readRes, reads, config>>

\* A plausible slip: the lock is taken whatever the strategy.
Begin_always_locks(p) ==
  /\ pc[p] = "begin"
  /\ Issue(p, "begin")
  /\ txn' = [txn EXCEPT ![p] = "open"]
  /\ pc' = [pc EXCEPT ![p] = "acquire"]
  /\ UNCHANGED <<nodes, hierarchy, nextId, held, segments, backend, idx, current_parent,
                 current, created, rows, err, txNodes, txHier, result, prev, seen,
                 calls, fails, readRes, reads, config, guard_result>>

\* LockedTransaction::acquire: db.begin()
Begin(p) ==
  /\ pc[p] = "begin"
  /\ Issue(p, "begin")
  /\ txn' = [txn EXCEPT ![p] = "open"]
  /\ pc' = [pc EXCEPT ![p] = IF config.advisory_lock_strategy = "Namespaced" THEN "acquire" ELSE "lookup"]
  /\ UNCHANGED <<nodes, hierarchy, nextId, held, segments, backend, idx, current_parent,
                 current, created, rows, err, txNodes, txHier, result, prev, seen,
                 calls, fails,
                 readRes, reads, config, guard_result>>

BeginFail(p) ==
  /\ pc[p] = "begin"
  /\ CanFail /\ Fail
  /\ Issue(p, "begin")
  /\ Return(p, Err("Database"))
  /\ seen' = [seen EXCEPT ![p] = Cardinality(nodes)]
  /\ UNCHANGED <<nodes, hierarchy, nextId, held, segments, backend, txn, txNodes, txHier,
                 prev, calls,
                 readRes, reads, config, guard_result>>

\* acquire_lock: SELECT pg_advisory_lock(..) blocks while another session holds
\* the lock; a session that already holds it takes it once more.
Acquire(p) ==
  /\ pc[p] = "acquire"
  /\ \A q \in Procs \ {p} : held[q] = 0
  /\ Issue(p, "lock")
  /\ held' = [held EXCEPT ![p] = @ + 1]
  /\ pc' = [pc EXCEPT ![p] = "lookup"]
  /\ UNCHANGED <<nodes, hierarchy, nextId, segments, backend, idx, current_parent, current,
                 created, rows, err, txn, txNodes, txHier, result, prev, seen,
                 calls, fails,
                 readRes, reads, config, guard_result>>

\* A plausible slip: the error of acquire_lock is dropped and the walk runs
\* without the lock.
AcquireFail_proceeds(p) ==
  /\ pc[p] = "acquire"
  /\ CanFail /\ Fail
  /\ Issue(p, "lock")
  /\ pc' = [pc EXCEPT ![p] = "lookup"]
  /\ UNCHANGED <<nodes, hierarchy, nextId, held, segments, backend, idx, current_parent,
                 current, created, rows, err, txn, txNodes, txHier, result, prev, seen,
                 calls, readRes, reads, config, guard_result>>

\* acquire_lock fails: let _ = txn.rollback().await; return Err(err)
AcquireFail(p) ==
  /\ pc[p] = "acquire"
  /\ CanFail /\ Fail
  /\ stmts' = [stmts EXCEPT ![p] = @ \o <<"lock", "rollback">>]
  /\ Discard(p)
  /\ Return(p, Err("Database"))
  /\ seen' = [seen EXCEPT ![p] = Cardinality(nodes)]
  /\ UNCHANGED <<nodes, hierarchy, nextId, held, segments, backend, prev, calls,
                 readRes, reads, config, guard_result>>

\* find_or_create_by_path_on: find_child_by_name(conn, current_parent, name)
Lookup(p) ==
  /\ pc[p] = "lookup"
  /\ Issue(p, "select_child")
  /\ LET found == find_child_by_name(VisibleNodes(p), current_parent[p],
                                     segments[p][idx[p]])
     IN IF found # {}
          THEN \E m \in found : NextSegment(p, m.id)
          ELSE /\ pc' = [pc EXCEPT ![p] = "insert"]
               /\ UNCHANGED <<idx, current_parent, current, err>>
  /\ UNCHANGED <<nodes, hierarchy, nextId, held, segments, backend, created, rows, txn,
                 txNodes, txHier, result, prev, seen, calls, fails,
                 readRes, reads, config, guard_result>>

\* A store round trip of the walk fails: `?` leaves find_or_create_by_path_on.
WalkFail(p, at, s) ==
  /\ pc[p] = at
  /\ CanFail /\ Fail
  /\ Issue(p, s)
  /\ ToRollback(p, "Database")
  /\ UNCHANGED <<nodes, hierarchy, nextId, held, segments, backend, idx, current_parent,
                 current, created, rows, txn, txNodes, txHier, result, prev, seen,
                 calls,
                 readRes, reads, config, guard_result>>

LookupFail(p) == WalkFail(p, "lookup", "select_child")

\* A plausible slip: the node is inserted on the pool connection instead of
\* the transaction, so it is committed at once, before its closure rows.
Insert_on_pool(p) ==
  /\ pc[p] = "insert"
  /\ Issue(p, "insert_node")
  /\ nextId' = nextId + 1
  /\ created' = [created EXCEPT ![p] = nextId]
  /\ nodes' = nodes \cup {Node(nextId, current_parent[p], segments[p][idx[p]])}
  /\ rows' = [rows EXCEPT ![p] = {hierarchy_build_row(nextId, nextId, 0)}]
  /\ pc' = [pc EXCEPT ![p] = IF current_parent[p] # NoId THEN "ancestors" ELSE "hier"]
  /\ UNCHANGED <<hierarchy, held, segments, backend, idx, current_parent, current,
                 err, txn, txNodes, txHier, result, prev, seen, calls, fails,
                 readRes, reads, config, guard_result>>

\* insert_child: active.insert(conn), then the self row of insert_hierarchy_rows
Insert(p) ==
  /\ pc[p] = "insert"
  /\ Issue(p, "insert_node")
  /\ nextId' = nextId + 1
  /\ created' = [created EXCEPT ![p] = nextId]
  /\ txNodes' = [txNodes EXCEPT ![p] =
                   @ \cup {Node(nextId, current_parent[p], segments[p][idx[p]])}]
  /\ rows' = [rows EXCEPT ![p] = {hierarchy_build_row(nextId, nextId, 0)}]
  /\ pc' = [pc EXCEPT ![p] = IF current_parent[p] # NoId THEN "ancestors" ELSE "hier"]
  /\ UNCHANGED <<nodes, hierarchy, held, segments, backend, idx, current_parent, current,
                 err, txn, txHier, result, prev, seen, calls, fails,
                 readRes, reads, config, guard_result>>

InsertFail(p) == WalkFail(p, "insert", "insert_node")

\* insert_hierarchy_rows: the query for the parent's rows and the loop over them
Ancestors(p) ==
  /\ pc[p] = "ancestors"
  /\ Issue(p, "select_ancestors")
  /\ rows' = [rows EXCEPT ![p] =
                @ \cup ancestor_rows(VisibleHier(p), current_parent[p], created[p])]
  /\ pc' = [pc EXCEPT ![p] = "hier"]
  /\ UNCHANGED <<nodes, hierarchy, nextId, held, segments, backend, idx, current_parent,
                 current, created, err, txn, txNodes, txHier, result, prev, seen,
                 calls, fails,
                 readRes, reads, config, guard_result>>

AncestorsFail(p) == WalkFail(p, "ancestors", "select_ancestors")

\* insert_hierarchy_rows: insert_many(rows); insert_child returns the model
InsertHier(p) ==
  /\ pc[p] = "hier"
  /\ Issue(p, "insert_hierarchy")
  /\ txHier' = [txHier EXCEPT ![p] = @ \cup rows[p]]
  /\ NextSegment(p, created[p])
  /\ UNCHANGED <<nodes, hierarchy, nextId, held, segments, backend, created, rows, txn,
                 txNodes, result, prev, seen, calls, fails,
                 readRes, reads, config, guard_result>>

InsertHierFail(p) == WalkFail(p, "hier", "insert_hierarchy")

\* pg_advisory_unlock: the session gives up one hold on the lock, at once.
Unlock(p) == held' = [held EXCEPT ![p] = IF @ > 0 THEN @ - 1 ELSE 0]

\* A plausible slip: the unlock names another key, so the session keeps its
\* hold on the tree's lock.
Release_keeps_lock(p) ==
  /\ pc[p] = "release"
  /\ Issue(p, "unlock")
  /\ pc' = [pc EXCEPT ![p] = "commit"]
  /\ UNCHANGED <<nodes, hierarchy, nextId, held, segments, backend, idx, current_parent,
                 current, created, rows, err, txn, txNodes, txHier, result, prev, seen,
                 calls, fails, readRes, reads, config, guard_result>>

\* LockedTransaction::commit: release_lock(txn, key).await?
Release(p) ==
  /\ pc[p] = "release"
  /\ Issue(p, "unlock")
  /\ Unlock(p)
  /\ pc' = [pc EXCEPT ![p] = "commit"]
  /\ UNCHANGED <<nodes, hierarchy, nextId, segments, backend, idx, current_parent, current,
                 created, rows, err, txn, txNodes, txHier, result, prev, seen,
                 calls, fails,
                 readRes, reads, config, guard_result>>

\* release_lock fails in commit: `?` returns the error, the guard is dropped
\* with its transaction still open, and the drop rolls the transaction back.
ReleaseFail(p) ==
  /\ pc[p] = "release"
  /\ CanFail /\ Fail
  /\ Issue(p, "unlock")
  /\ Discard(p)
  /\ Return(p, Err("Database"))
  /\ seen' = [seen EXCEPT ![p] = Cardinality(nodes)]
  /\ guard_result' = [guard_result EXCEPT ![p] = "Database"]
  /\ UNCHANGED <<nodes, hierarchy, nextId, held, segments, backend, prev, calls,
                 readRes, reads, config>>

\* A plausible slip: the Ok arm returns the model without guard.commit(), and
\* the guard is dropped with its transaction open.
Commit_drops_guard(p) ==
  /\ pc[p] = "commit"
  /\ Issue(p, "commit")
  /\ Discard(p)
  /\ Return(p, Ok(current[p]))
  /\ seen' = [seen EXCEPT ![p] = Cardinality(nodes)]
  /\ UNCHANGED <<nodes, hierarchy, nextId, held, segments, backend, prev, calls, fails,
                 readRes, reads, config, guard_result>>

\* A plausible slip: the commit replaces the committed tables by what the
\* transaction wrote.
Commit_replaces(p) ==
  /\ pc[p] = "commit"
  /\ Issue(p, "commit")
  /\ nodes' = txNodes[p]
  /\ hierarchy' = txHier[p]
  /\ txn' = [txn EXCEPT ![p] = "committed"]
  /\ txNodes' = [txNodes EXCEPT ![p] = {}]
  /\ txHier' = [txHier EXCEPT ![p] = {}]
  /\ Return(p, Ok(current[p]))
  /\ seen' = [seen EXCEPT ![p] = Cardinality(nodes')]
  /\ guard_result' = [guard_result EXCEPT ![p] = "Ok"]
  /\ UNCHANGED <<nextId, held, segments, backend, prev, calls, fails,
                 readRes, reads, config>>

\* LockedTransaction::commit: txn.commit(); find_or_create_with_guard: Ok(model)
Commit(p) ==
  /\ pc[p] = "commit"
  /\ Issue(p, "commit")
  /\ nodes' = nodes \cup txNodes[p]
  /\ hierarchy' = hierarchy \cup txHier[p]
  /\ txn' = [txn EXCEPT ![p] = "committed"]
  /\ txNodes' = [txNodes EXCEPT ![p] = {}]
  /\ txHier' = [txHier EXCEPT ![p] = {}]
  /\ Return(p, Ok(current[p]))
  /\ seen' = [seen EXCEPT ![p] = Cardinality(nodes')]
  /\ guard_result' = [guard_result EXCEPT ![p] = "Ok"]
  /\ UNCHANGED <<nextId, held, segments, backend, prev, calls, fails,
                 readRes, reads, config>>

\* txn.commit() fails: nothing is committed, the error is returned
CommitFail(p) ==
  /\ pc[p] = "commit"
  /\ CanFail /\ Fail
  /\ Issue(p, "commit")
  /\ Discard(p)
  /\ Return(p, Err("Database"))
  /\ seen' = [seen EXCEPT ![p] = Cardinality(nodes)]
  /\ guard_result' = [guard_result EXCEPT ![p] = "Database"]
  /\ UNCHANGED <<nodes, hierarchy, nextId, held, segments, backend, prev, calls,
                 readRes, reads, config>>

\* LockedTransaction::rollback: let _ = release_lock(txn, key).await
RbRelease(p) ==
  /\ pc[p] = "rb_release"
  /\ Issue(p, "unlock")
  /\ Unlock(p)
  /\ pc' = [pc EXCEPT ![p] = "rollback"]
  /\ UNCHANGED <<nodes, hierarchy, nextId, segments, backend, idx, current_parent, current,
                 created, rows, err, txn, txNodes, txHier, result, prev, seen,
                 calls, fails,
                 readRes, reads, config, guard_result>>

\* A plausible slip: the release in rollback is written with `?` as in commit,
\* so its failure returns before txn.rollback() and the guard is dropped.
RbReleaseFail_returns(p) ==
  /\ pc[p] = "rb_release"
  /\ Issue(p, "unlock")
  /\ Discard(p)
  /\ Return(p, Err(err[p]))
  /\ seen' = [seen EXCEPT ![p] = Cardinality(nodes)]
  /\ guard_result' = [guard_result EXCEPT ![p] = "Database"]
  /\ UNCHANGED <<nodes, hierarchy, nextId, held, segments, backend, prev, calls, fails,
                 readRes, reads, config>>

\* The release fails (the statement that failed the walk left the transaction
\* aborted, so the server refuses the unlock too); the error is ignored.
RbReleaseFail(p) ==
  /\ pc[p] = "rb_release"
  /\ Issue(p, "unlock")
  /\ pc' = [pc EXCEPT ![p] = "rollback"]
  /\ UNCHANGED <<nodes, hierarchy, nextId, held, segments, backend, idx, current_parent,
                 current, created, rows, err, txn, txNodes, txHier, result, prev,
                 seen, calls, fails,
                 readRes, reads, config, guard_result>>

\* txn.rollback() fails (the connection that failed the walk is gone): `?`
\* returns the rollback's error from LockedTransaction::rollback, and the
\* transaction ends with the connection.  find_or_create_with_guard discards
\* that error with `let _ =` and returns the walk's error.
RollbackFail(p) ==
  /\ pc[p] = "rollback"
  /\ Issue(p, "rollback")
  /\ Discard(p)
  /\ Return(p, Err(err[p]))
  /\ seen' = [seen EXCEPT ![p] = Cardinality(nodes)]
  /\ guard_result' = [guard_result EXCEPT ![p] = "Database"]
  /\ UNCHANGED <<nodes, hierarchy, nextId, held, segments, backend, prev, calls, fails,
                 readRes, reads, config>>

\* A plausible slip: the Err arm ends the transaction with commit.
Rollback_commits(p) ==
  /\ pc[p] = "rollback"
  /\ Issue(p, "rollback")
  /\ nodes' = nodes \cup txNodes[p]
  /\ hierarchy' = hierarchy \cup txHier[p]
  /\ Discard(p)
  /\ Return(p, Err(err[p]))
  /\ seen' = [seen EXCEPT ![p] = Cardinality(nodes)]
  /\ guard_result' = [guard_result EXCEPT ![p] = "Ok"]
  /\ UNCHANGED <<nextId, held, segments, backend, prev, calls, fails, readRes, reads, config>>

\* LockedTransaction::rollback: txn.rollback(); its outcome is discarded by
\* `let _ =` in find_or_create_with_guard, which returns the walk's error.
Rollback(p) ==
  /\ pc[p] = "rollback"
  /\ Issue(p, "rollback")
  /\ Discard(p)
  /\ Return(p, Err(err[p]))
  /\ seen' = [seen EXCEPT ![p] = Cardinality(nodes)]
  /\ guard_result' = [guard_result EXCEPT ![p] = "Ok"]
  /\ UNCHANGED <<nodes, hierarchy, nextId, held, segments, backend, prev, calls, fails,
                 readRes, reads, config>>

\* A plausible slip: dropping the guard commits what the call wrote so far.
Cancel_commits(p) ==
  /\ txn[p] = "open"
  /\ nodes' = nodes \cup txNodes[p]
  /\ hierarchy' = hierarchy \cup txHier[p]
  /\ txn' = [txn EXCEPT ![p] = "committed"]
  /\ txNodes' = [txNodes EXCEPT ![p] = {}]
  /\ txHier' = [txHier EXCEPT ![p] = {}]
  /\ Return(p, Err("Cancelled"))
  /\ seen' = [seen EXCEPT ![p] = Cardinality(nodes)]
  /\ UNCHANGED <<nextId, held, segments, backend, stmts, prev, calls, fails,
                 readRes, reads, config, guard_result>>

\* The caller drops the future of find_or_create_by_path at an await point
\* after db.begin(), before the statement awaited there reaches the store.  The
\* LockedTransaction is dropped with it (it has no commit or rollback left to
\* run), and the drop of its open DatabaseTransaction rolls the transaction
\* back.  No pg_advisory_unlock is issued.
Cancel(p) ==
  /\ txn[p] = "open"
  /\ Discard(p)
  /\ Return(p, Err("Cancelled"))
  /\ seen' = [seen EXCEPT ![p] = Cardinality(nodes)]
  /\ UNCHANGED <<nodes, hierarchy, nextId, held, segments, backend, stmts, prev, calls,
                 fails, readRes, reads, config, guard_result>>

\* The statement a caller awaits at each point where dropping the future
\* leaves an effect in the store that a rollback does not undo.
InFlight(at) ==
  CASE at = "acquire" -> "lock"
    [] at = "insert" -> "insert_node"
    [] at = "release" -> "unlock"
    [] at = "rb_release" -> "unlock"
    [] at = "commit" -> "commit"

\* The caller drops the future while a statement is in flight: the store has
\* executed it, the caller never sees its outcome.  A lock or unlock has taken
\* effect on the session, an insert has advanced the id sequence, and a COMMIT
\* (lock.rs:51) has committed the transaction; in every other case the drop
\* rolls the transaction back.
CancelInFlight(p) ==
  /\ txn[p] = "open"
  /\ pc[p] \in {"acquire", "insert", "release", "rb_release", "commit"}
  /\ pc[p] = "acquire" => \A q \in Procs \ {p} : held[q] = 0
  /\ Issue(p, InFlight(pc[p]))
  /\ held' = [held EXCEPT ![p] =
                IF pc[p] = "acquire" THEN @ + 1
                ELSE IF pc[p] \in {"release", "rb_release"} /\ @ > 0 THEN @ - 1
                ELSE @]
  /\ nextId' = IF pc[p] = "insert" THEN nextId + 1 ELSE nextId
  /\ IF pc[p] = "commit"
       THEN /\ nodes' = nodes \cup txNodes[p]
            /\ hierarchy' = hierarchy \cup txHier[p]
            /\ txn' = [txn EXCEPT ![p] = "committed"]
            /\ txNodes' = [txNodes EXCEPT ![p] = {}]
            /\ txHier' = [txHier EXCEPT ![p] = {}]
       ELSE /\ Discard(p)
            /\ UNCHANGED <<nodes, hierarchy>>
  /\ Return(p, Err("Cancelled"))
  /\ seen' = [seen EXCEPT ![p] = Cardinality(nodes')]
  /\ UNCHANGED <<segments, backend, prev, calls, fails, readRes, reads, config, guard_result>>

\* A caller starts a call.
Start(p) == \E segs \in Paths, db \in Backends : Call(p, segs, db)

\* A call in flight takes its next store round trip.
Step(p) ==
    \/ Begin(p)
    \/ BeginFail(p)
    \/ Acquire(p)
    \/ AcquireFail(p)
    \/ Lookup(p)
    \/ LookupFail(p)
    \/ Insert(p)
    \/ InsertFail(p)
    \/ Ancestors(p)
    \/ AncestorsFail(p)
    \/ InsertHier(p)
    \/ InsertHierFail(p)
    \/ Release(p)
    \/ ReleaseFail(p)
    \/ Commit(p)
    \/ CommitFail(p)
    \/ RbRelease(p)
    \/ RbReleaseFail(p)
    \/ Rollback(p)
    \/ RollbackFail(p)

\* A read-only operation is issued.
Reader ==
  /\ reads < MaxReads
  /\ \/ \E segs \in Paths, db \in Backends : FindByPath(segs, db)
     \/ \E m \in nodes, db \in Backends : Parent(m.id, db)
     \/ \E m \in nodes, db \in Backends : Children(m.id, db)
     \/ \E db \in Backends : Roots(db)
     \/ \E m \in nodes, db \in Backends : Descendants(m.id, db)
     \/ \E m \in nodes, db \in Backends : SelfAndDescendants(m.id, db)

\* A call in flight takes its next store round trip, which succeeds.
StepOk(p) ==
    \/ Begin(p)
    \/ Acquire(p)
    \/ Lookup(p)
    \/ Insert(p)
    \/ Ancestors(p)
    \/ InsertHier(p)
    \/ Release(p)
    \/ Commit(p)

\* Concurrent find_or_create_by_path calls; any store round trip may fail.
Next ==
    \/ \E p \in Procs : calls < MaxCalls /\ Start(p)
    \/ \E p \in Procs : Step(p)

Spec == Init /\ [][Next]_vars

\* Concurrent find_or_create_by_path calls that the caller may cancel; any
\* store round trip may fail.
NextCancel ==
    \/ \E p \in Procs : calls < MaxCancelCalls /\ Start(p)
    \/ \E p \in Procs : Step(p)
    \/ \E p \in Procs : Cancel(p)
    \/ \E p \in Procs : CancelInFlight(p)

SpecCancel == Init /\ [][NextCancel]_vars

\* The model type is configured with either lock strategy.
InitLock ==
  /\ Init!1 /\ Init!2 /\ Init!3 /\ Init!4 /\ Init!5 /\ Init!6 /\ Init!7 /\ Init!8
  /\ Init!9 /\ Init!10 /\ Init!11 /\ Init!12 /\ Init!13 /\ Init!14 /\ Init!15
  /\ Init!16 /\ Init!17 /\ Init!18 /\ Init!19 /\ Init!20 /\ Init!21 /\ Init!22
  /\ Init!23 /\ Init!24 /\ Init!25
  /\ \E a \in AdvisoryLockStrategies :
       config = [ClosureTreeConfig_new EXCEPT !.advisory_lock_strategy = a]

\* Concurrent find_or_create_by_path calls under either lock strategy; any
\* store round trip may fail.
NextLock ==
    \/ \E p \in Procs : calls < MaxLockCalls /\ Start(p)
    \/ \E p \in Procs : Step(p)

SpecLock == InitLock /\ [][NextLock]_vars

\* The configuration of a model type is about to be constructed from its
\* entity and hierarchy names.
InitKey ==
  /\ Init!1 /\ Init!2 /\ Init!3 /\ Init!4 /\ Init!5 /\ Init!6 /\ Init!7 /\ Init!8
  /\ Init!9 /\ Init!10 /\ Init!11 /\ Init!12 /\ Init!13 /\ Init!14 /\ Init!15
  /\ Init!16 /\ Init!17 /\ Init!18 /\ Init!19 /\ Init!20 /\ Init!21 /\ Init!22
  /\ Init!23 /\ Init!24 /\ Init!25
  /\ \E e \in KeyNames, h \in KeyNames :
       config = [ClosureTreeConfig_new EXCEPT !.entity_name = e,
                                              !.hierarchy_name = h,
                                              !.advisory_lock_key = <<>>]

\* ClosureTreeConfig::new(entity_name, hierarchy_name)
BuildConfig ==
  /\ config.advisory_lock_key = <<>>
  /\ config' = new(config.entity_name, config.hierarchy_name)
  /\ UNCHANGED <<nodes, hierarchy, nextId, held, pc, segments, backend, idx, current_parent,
                 current, created, rows, err, txn, txNodes, txHier, stmts, result,
                 prev, seen, readRes, calls, fails, reads, guard_result>>

\* The construction of the configuration, for every pair of names.
SpecKey == InitKey /\ [][BuildConfig]_vars

\* A finite set of concurrent find_or_create_by_path calls against a store that
\* never fails.
NextLive ==
    \/ \E p \in Procs : calls < MaxLiveCalls /\ Start(p)
    \/ \E p \in Procs : StepOk(p)

\* Each call is a future the runtime keeps polling: a call whose next round
\* trip can be served is eventually served.  A caller waiting in
\* pg_advisory_lock can take no step while another session holds the lock.
SpecLive == Init /\ [][NextLive]_vars /\ \A p \in Procs : WF_vars(StepOk(p))

\* Concurrent find_or_create_by_path calls against a store that never fails.
NextOk ==
    \/ \E p \in Procs : calls < MaxOkCalls /\ Start(p)
    \/ \E p \in Procs : StepOk(p)

SpecOk == Init /\ [][NextOk]_vars

\* Concurrent find_or_create_by_path calls and read-only operations against a
\* store that never fails.
NextRead ==
    \/ \E p \in Procs : calls < MaxReadCalls /\ Start(p)
    \/ \E p \in Procs : StepOk(p)
    \/ Reader

SpecRead == Init /\ [][NextRead]_vars

\* An operation that returns a list of nodes is issued on a PostgreSQL
\* connection.
ListReader ==
  /\ reads < MaxReads
  /\ \/ \E m \in nodes : Children(m.id, "Postgres")
     \/ Roots("Postgres")
     \/ \E m \in nodes : Descendants(m.id, "Postgres")
     \/ \E m \in nodes : SelfAndDescendants(m.id, "Postgres")

\* children or descendants is called on a PostgreSQL connection, and called
\* again with the same node.
RepeatReader ==
  /\ reads < MaxRepeatReads
  /\ \/ \E m \in nodes :
          /\ reads = 0 \/ (readRes.op = "children" /\ readRes.arg = m.id)
          /\ Children(m.id, "Postgres")
     \/ \E m \in nodes :
          /\ reads = 0 \/ (readRes.op = "descendants" /\ readRes.arg = m.id)
          /\ Descendants(m.id, "Postgres")

\* The model type is configured with any order strategy.
InitTree ==
  /\ Init!1 /\ Init!2 /\ Init!3 /\ Init!4 /\ Init!5 /\ Init!6 /\ Init!7 /\ Init!8
  /\ Init!9 /\ Init!10 /\ Init!11 /\ Init!12 /\ Init!13 /\ Init!14 /\ Init!15
  /\ Init!16 /\ Init!17 /\ Init!18 /\ Init!19 /\ Init!20 /\ Init!21 /\ Init!22
  /\ Init!23 /\ Init!24 /\ Init!25
  /\ \E o \in OrderStrategies : config = [ClosureTreeConfig_new EXCEPT !.order_strategy = o]

\* Concurrent find_or_create_by_path calls and the operations that return a
\* list of nodes, under any order strategy, against a store that never fails.
NextTree ==
    \/ \E p \in Procs : calls < MaxTreeCalls /\ Start(p)
    \/ \E p \in Procs : StepOk(p)
    \/ ListReader

SpecTree == InitTree /\ [][NextTree]_vars

\* Concurrent find_or_create_by_path calls and repeated children / descendants
\* calls, against a store that never fails.
NextRepeat ==
    \/ \E p \in Procs : calls < MaxRepeatCalls /\ Start(p)
    \/ \E p \in Procs : StepOk(p)
    \/ RepeatReader

SpecRepeat == Init /\ [][NextRepeat]_vars

\* ======================================================================
\* Properties
\* ======================================================================

\* The ancestors of node id found by walking parent_id, each with its distance
\* from id (id itself at distance dist).
RECURSIVE AncestorsByParent(_, _)
AncestorsByParent(id, dist) ==
  IF id = NoId
    THEN {}
    ELSE {<<id, dist>>}
           \cup AncestorsByParent((CHOOSE m \in nodes : m.id = id).parent_id, dist + 1)

\* C1: closure invariant.  In the committed tables every parent_id names a
\* committed node, and for every node n the hierarchy rows with descendant n
\* are exactly (a, n, dist(a, n)) for a ranging over n and its ancestors by
\* parent_id, n itself at generations 0; no row has a descendant that is not
\* a node.
ClosureInvariant ==
  /\ \A n \in nodes : n.parent_id # NoId => \E m \in nodes : m.id = n.parent_id
  /\ \A n \in nodes :
       {h \in hierarchy : h.descendant_id = n.id}
         = {[ancestor_id |-> a[1], descendant_id |-> n.id, generations |-> a[2]]
              : a \in AncestorsByParent(n.id, 0)}
  /\ \A h \in hierarchy : \E n \in nodes : n.id = h.descendant_id

\* C1 witness: a committed node with a grandparent, under a tree two calls built.
ClosureWitness ==
  /\ \E h \in hierarchy : h.generations = 2
  /\ \A p \in Procs : pc[p] = "idle" /\ result[p].kind = "Ok"

\* C2: with the Namespaced lock the committed node table never holds two nodes
\* with the same (parent_id, name).
UniqueSiblingNames ==
  config.advisory_lock_strategy = "Namespaced" =>
    \A m, n \in nodes : (m.parent_id = n.parent_id /\ m.name = n.name) => m.id = n.id

\* The walk of caller p runs: p is past acquire on an open transaction.
InWalk(p) == txn[p] = "open" /\ pc[p] \notin {"begin", "acquire"}

\* C3: calls serialize on the tree lock.  While the transaction of a call that
\* got past acquire is open (neither committed nor rolled back), no other call
\* is past acquire: none has issued, or is about to issue, a child lookup.
SerializedOnLock ==
  config.advisory_lock_strategy = "Namespaced" =>
    \A p, q \in Procs : (p # q /\ InWalk(p)) => ~InWalk(q)

\* C4: atomicity.  The committed tables change only in the step in which a
\* call commits and returns Ok: no step of a call that fails (at a lookup, an
\* insert, the ancestor query, the closure-row insert, the lock release or the
\* commit) changes them, so they are what they were before the call.
Atomicity ==
  [][(nodes' # nodes \/ hierarchy' # hierarchy) =>
       \E p \in Procs : /\ pc[p] = "commit" /\ pc'[p] = "idle"
                        /\ txn'[p] = "committed" /\ result'[p].kind = "Ok"]_vars

Issued(p, s) == \E i \in 1..Len(stmts[p]) : stmts[p][i] = s

\* C4 witness: a call that inserted a node and its closure rows has returned
\* an error, and nothing of it is committed.
AtomicityWitness ==
  \E p \in Procs :
    /\ pc[p] = "idle" /\ result[p].kind = "Database"
    /\ Issued(p, "insert_hierarchy") /\ Issued(p, "rollback")
    /\ nodes = {} /\ hierarchy = {} /\ nextId > 1

\* Caller p's call returns Ok in this step.
ReturnsOk(p) == pc[p] = "commit" /\ pc'[p] = "idle" /\ result'[p].kind = "Ok"

\* Caller p's call repeats its preceding call, which returned Ok, and the
\* committed tables have not changed since that call returned.
Repeats(p) == prev[p] # NoId /\ Cardinality(nodes) = seen[p]

\* C5: idempotence of path creation.  A call that repeats the caller's
\* preceding successful call (same segments, no mutation of the committed
\* tables in between) returns the same id and leaves both tables unchanged.
Idempotent ==
  [][\A p \in Procs :
       (ReturnsOk(p) /\ Repeats(p)) =>
         /\ result'[p].id = prev[p]
         /\ nodes' = nodes /\ hierarchy' = hierarchy]_vars

\* C5 without the states that C2's race produces: as Idempotent, for tables
\* in which sibling names are unique.
IdempotentOnUniqueSiblings ==
  [][\A p \in Procs :
       (ReturnsOk(p) /\ Repeats(p) /\ UniqueSiblingNames) =>
         /\ result'[p].id = prev[p]
         /\ nodes' = nodes /\ hierarchy' = hierarchy]_vars

\* A find_by_path(segs) returns in this step, on a supported backend.
FindByPathReturns(segs) ==
  /\ reads' = reads + 1
  /\ readRes'.op = "find_by_path" /\ readRes'.kind = "Ok" /\ readRes'.arg = segs

\* Caller p's last call returned Ok and the committed tables have not changed
\* since it returned.
FreshOk(p) ==
  pc[p] = "idle" /\ result[p].kind = "Ok" /\ Cardinality(nodes) = seen[p]

\* C6: path round trip.  After find_or_create_by_path(S) returned Ok(node),
\* a find_by_path(S) with no mutation in between returns Some of the same id.
RoundTrip ==
  [][\A p \in Procs :
       (FreshOk(p) /\ FindByPathReturns(segments[p])) =>
         readRes'.out = result[p].id]_vars

\* C6 without the states that C2's race produces: as RoundTrip, for tables in
\* which sibling names are unique.
RoundTripOnUniqueSiblings ==
  [][\A p \in Procs :
       (FreshOk(p) /\ FindByPathReturns(segments[p]) /\ UniqueSiblingNames) =>
         readRes'.out = result[p].id]_vars

\* The names from a root down to node id, by parent_id, in table.
RECURSIVE PathIn(_, _)
PathIn(table, id) ==
  IF id = NoId
    THEN <<>>
    ELSE LET m == CHOOSE n \in table : n.id = id
         IN Append(PathIn(table, m.parent_id), m.name)

\* The children of parent_id named name that caller p's transaction sees.
Matching(p, parent_id, name) ==
  {m \in nodes \cup txNodes[p] : m.parent_id = parent_id /\ m.name = name}

\* C7: what a successful find_or_create_by_path(S) returns and inserts.
\*  - a lookup that succeeds and has a matching child takes one of them as current and
\*    inserts nothing; a lookup without one leads to the insert;
\*  - the insert adds exactly one node, named by the segment, as child of the
\*    node resolved for the previous segment (a root for the first segment);
\*  - on Ok the returned node is committed, is named by the last segment, and
\*    its parent_id chain up to a root spells S; the call committed one node
\*    per insert it issued; on tables that were empty it leaves exactly k
\*    nodes and k(k+1)/2 hierarchy rows for a path of k segments.
PathCreated ==
  [][\A p \in Procs :
       /\ (pc[p] = "lookup" /\ stmts'[p] # stmts[p] /\ err'[p] = "none") =>
            LET match == Matching(p, current_parent[p], segments[p][idx[p]])
            IN IF match # {}
                 THEN /\ current'[p] \in {m.id : m \in match}
                      /\ pc'[p] # "insert" /\ txNodes' = txNodes
                 ELSE pc'[p] = "insert"
       /\ (pc[p] = "insert" /\ pc'[p] \in {"ancestors", "hier"}) =>
            \E id \in 1..nextId :
              /\ ~ \E m \in nodes \cup txNodes[p] : m.id = id
              /\ txNodes'[p] = txNodes[p]
                    \cup {[id |-> id, parent_id |-> current[p],
                           name |-> segments[p][idx[p]]]}
       /\ ReturnsOk(p) =>
            LET S == segments[p]
                k == Len(S)
                inserts == Cardinality({i \in 1..Len(stmts[p]) : stmts[p][i] = "insert_node"})
            IN /\ \E m \in nodes' : m.id = result'[p].id /\ m.name = S[k]
               /\ PathIn(nodes', result'[p].id) = S
               /\ Cardinality(nodes') = Cardinality(nodes) + inserts
               /\ nodes = {} =>
                    /\ Cardinality(nodes') = k
                    /\ 2 * Cardinality(hierarchy') = k * (k + 1)]_vars

\* C7 witness: one call with three segments on empty tables has returned Ok,
\* leaving 3 nodes and 6 hierarchy rows.
PathCreatedWitness ==
  /\ calls = 1
  /\ \E p \in Procs : /\ pc[p] = "idle" /\ result[p].kind = "Ok"
                       /\ Len(segments[p]) = 3
  /\ Cardinality(nodes) = 3 /\ Cardinality(hierarchy) = 6

\* C8: on a supported backend a call with zero segments returns EmptyPath
\* with no transaction begun and no statement issued (no lock acquire, no
\* query), and the step of the call changes neither table nor the lock.
EmptyPathRejected ==
  /\ [](\A p \in Procs :
          (segments[p] = <<>> /\ backend[p] = "Postgres" /\ result[p].kind # "none") =>
            /\ pc[p] = "idle" /\ result[p] = [kind |-> "EmptyPath", id |-> NoId]
            /\ stmts[p] = <<>> /\ txn[p] = "none")
  /\ [][(calls' = calls + 1
          /\ \E p \in Procs : segments'[p] = <<>> /\ backend'[p] = "Postgres") =>
         (nodes' = nodes /\ hierarchy' = hierarchy /\ held' = held)]_vars

\* C8 witness: a call with zero segments has returned EmptyPath on tables
\* that another call had filled.
EmptyPathWitness ==
  \E p \in Procs :
    /\ pc[p] = "idle" /\ result[p].kind = "EmptyPath" /\ backend[p] = "Postgres"
    /\ nodes # {}

\* C9: find_by_path(S) walks S left to right.  Empty S gives None with no
\* lookup.  The models matched are, in order, a root named S[1], a child of it
\* named S[2], ...; the walk stops with None at the first segment that names no
\* child of the model matched before it (no root, for the first), having
\* issued one lookup per segment up to that one and none after; when every
\* segment matched it returns the model matched for the last.
FindByPathWalk ==
  [][\A S \in Paths :
       FindByPathReturns(S) =>
         LET r == readRes'
             n == Len(r.matched)
             before(i) == IF i = 1 THEN NoId ELSE r.matched[i - 1]
         IN /\ S = <<>> => (r.out = NoId /\ r.lookups = 0)
            /\ n <= Len(S)
            /\ \A i \in 1..n :
                 \E m \in nodes : /\ m.id = r.matched[i] /\ m.name = S[i]
                                  /\ m.parent_id = before(i)
            /\ n < Len(S) =>
                 /\ r.out = NoId /\ r.lookups = n + 1
                 /\ ~ \E m \in nodes : m.name = S[n + 1] /\ m.parent_id = before(n + 1)
            /\ (n = Len(S) /\ n > 0) => (r.out = r.matched[n] /\ r.lookups = n)]_vars

\* C9 witness: a walk of three segments that stopped at the second: one model
\* matched, two lookups, None.
FindByPathWitness ==
  /\ readRes.op = "find_by_path" /\ readRes.kind = "Ok"
  /\ Len(readRes.arg) = 3 /\ Len(readRes.matched) = 1
  /\ readRes.lookups = 2 /\ readRes.out = NoId

\* C10: descendants(n) returns, each once, exactly the nodes d with a hierarchy
\* row (n, d, g), g > 0, which are exactly the nodes that reach n by one or
\* more parent_id steps; n is not among them, and a leaf yields the empty list.
DescendantsExact ==
  [][(reads' = reads + 1 /\ readRes'.op = "descendants" /\ readRes'.kind = "Ok") =>
       LET n == readRes'.arg
           out == readRes'.out
           ids == {out[i] : i \in 1..Len(out)}
       IN /\ ids = {h.descendant_id :
                      h \in {x \in hierarchy : x.ancestor_id = n /\ x.generations > 0}}
          /\ ids = {m.id : m \in {x \in nodes :
                      \E a \in AncestorsByParent(x.id, 0) : a[1] = n /\ a[2] > 0}}
          /\ n \notin ids
          /\ Len(out) = Cardinality(ids)
          /\ (~ \E m \in nodes : m.parent_id = n) => out = <<>>]_vars

\* C10 witness: descendants of a node with a child and a grandchild returned both.
DescendantsWitness ==
  /\ readRes.op = "descendants" /\ readRes.kind = "Ok"
  /\ Len(readRes.out) = 2
  /\ \E h \in hierarchy : h.ancestor_id = readRes.arg /\ h.generations = 2

\* A read-only operation op returns Ok in this step.
ReadReturns(op) ==
  reads' = reads + 1 /\ readRes'.op = op /\ readRes'.kind = "Ok"

\* The number of positions of sequence out that hold id.
Occurrences(out, id) == Cardinality({i \in 1..Len(out) : out[i] = id})

\* C11: self_and_descendants(n) is the one-element list [n] followed by a
\* result of descendants(n): n is at position 0 under every order strategy,
\* however its name sorts against its descendants, and appears exactly once.
SelfFirst ==
  [][ReadReturns("self_and_descendants") =>
       LET n == readRes'.arg
           out == readRes'.out
       IN /\ Len(out) >= 1 /\ out[1] = n
          /\ Tail(out) \in descendants_with_conn(n, TRUE)
          /\ Occurrences(out, n) = 1]_vars

\* C11 witness: under a NumericColumn strategy, self_and_descendants of a node
\* has returned it in front of a descendant whose name sorts before its own.
SelfFirstWitness ==
  /\ readRes.op = "self_and_descendants" /\ readRes.kind = "Ok"
  /\ config.order_strategy.kind = "NumericColumn"
  /\ Len(readRes.out) >= 2
  /\ NameRank(NodeById(readRes.out[1]).name) > NameRank(NodeById(readRes.out[2]).name)

\* Rows a then b respect the ordering contract: ascending by the configured
\* numeric column under a NumericColumn strategy, with the name ascending as
\* tiebreak; by the name ascending alone otherwise.
Contract(a, b) ==
  LET o == config.order_strategy
      col(m) == IF o.column = "id" THEN m.id ELSE m.parent_id
  IN IF o.kind = "NumericColumn"
       THEN col(a) < col(b) \/ (col(a) = col(b) /\ NameRank(a.name) <= NameRank(b.name))
       ELSE NameRank(a.name) <= NameRank(b.name)

\* Sequence out lists exactly the nodes of set ms, each once, in an order
\* that respects the ordering contract.
ListsInOrder(out, ms) ==
  /\ {out[i] : i \in 1..Len(out)} = {m.id : m \in ms}
  /\ Len(out) = Cardinality(ms)
  /\ \A i, j \in 1..Len(out) : i < j => Contract(NodeById(out[i]), NodeById(out[j]))

\* C12: children(n) returns exactly the nodes whose parent_id is n.id, sorted
\* ascending by the configured numeric column under a NumericColumn strategy
\* and then by name ascending; by name ascending alone otherwise.
ChildrenOrdered ==
  [][ReadReturns("children") =>
       ListsInOrder(readRes'.out, {m \in nodes : m.parent_id = readRes'.arg})]_vars

\* C12 witness: under NumericColumn on id, children has returned two children
\* whose order by id is the reverse of their order by name.
ChildrenWitness ==
  /\ readRes.op = "children" /\ readRes.kind = "Ok"
  /\ config.order_strategy = [kind |-> "NumericColumn", column |-> "id"]
  /\ Len(readRes.out) = 2
  /\ NameRank(NodeById(readRes.out[1]).name) > NameRank(NodeById(readRes.out[2]).name)

\* C13: roots() returns exactly the nodes with null parent_id under the
\* ordering contract of children: ascending by the configured numeric column
\* under a NumericColumn strategy, then by name ascending.
RootsOrdered ==
  [][ReadReturns("roots") =>
       ListsInOrder(readRes'.out, {m \in nodes : m.parent_id = NoId})]_vars

\* C13, the part that does not depend on the order strategy: roots() returns
\* exactly the nodes with null parent_id, each once, by name ascending.
RootsByName ==
  [][ReadReturns("roots") =>
       LET out == readRes'.out
       IN /\ {out[i] : i \in 1..Len(out)} = {m.id : m \in {n \in nodes : n.parent_id = NoId}}
          /\ Len(out) = Cardinality({n \in nodes : n.parent_id = NoId})
          /\ \A i, j \in 1..Len(out) :
               i < j => NameRank(NodeById(out[i]).name) <= NameRank(NodeById(out[j]).name)]_vars

\* C14: ordering determinism.  In every tree state reached through
\* find_or_create_by_path, a children(n), or a descendants(n), that follows a
\* call of the same operation on the same n with no mutation of the committed
\* tables in between returns the same sequence of nodes; the store returns
\* rows that tie on every sort key in any order.
OrderingDeterminism ==
  [][\A op \in {"children", "descendants"} :
       (/\ ReadReturns(op)
        /\ readRes.op = op /\ readRes.kind = "Ok" /\ readRes.arg = readRes'.arg
        /\ readRes.at = Cardinality(nodes)) =>
         readRes'.out = readRes.out]_vars

\* C14 in the tables C2's race does not produce: as OrderingDeterminism, for
\* tables in which sibling names are unique.
OrderingDeterminismOnUniqueSiblings ==
  [][\A op \in {"children", "descendants"} :
       (/\ ReadReturns(op)
        /\ readRes.op = op /\ readRes.kind = "Ok" /\ readRes.arg = readRes'.arg
        /\ readRes.at = Cardinality(nodes)
        /\ UniqueSiblingNames) =>
         readRes'.out = readRes.out]_vars

\* Caller p's call gets the outcome of a statement in this step.
Awaits(p, at) == pc[p] = at /\ stmts'[p] # stmts[p]

\* C15: when the advisory-lock acquire statement fails in
\* LockedTransaction::acquire, the transaction just opened is rolled back and
\* the error is returned to the caller of find_or_create_by_path, with no
\* child lookup, node insert or hierarchy insert issued and no table changed.
AcquireFailureReturns ==
  [][\A p \in Procs :
       (Awaits(p, "acquire") /\ fails' = fails + 1) =>
         /\ pc'[p] = "idle" /\ result'[p] = Err("Database")
         /\ txn[p] = "open" /\ txn'[p] = "rolledback"
         /\ stmts'[p] = <<"begin", "lock", "rollback">>
         /\ txNodes'[p] = {} /\ txHier'[p] = {}
         /\ nodes' = nodes /\ hierarchy' = hierarchy /\ nextId' = nextId]_vars

\* C15 witness: a call whose lock acquire failed has returned the error, on
\* tables another call had filled.
AcquireFailureWitness ==
  \E p \in Procs :
    /\ pc[p] = "idle" /\ result[p].kind = "Database"
    /\ stmts[p] = <<"begin", "lock", "rollback">> /\ txn[p] = "rolledback"
    /\ nodes # {}

\* C16: LockedTransaction::commit with a Namespaced lock issues the release
\* statement and then commits; a failure of the release statement does not
\* abort the commit: whatever the release statement's outcome, the transaction
\* stays open and txn.commit() comes next.
ReleaseBestEffort ==
  [][\A p \in Procs :
       (config.advisory_lock_strategy = "Namespaced" /\ Awaits(p, "release")) =>
         /\ stmts'[p] = Append(stmts[p], "unlock")
         /\ pc'[p] = "commit" /\ txn'[p] = "open"]_vars

\* C16, the part that holds: when the release statement succeeds, the commit
\* statement is issued next.
ReleaseThenCommit ==
  [][\A p \in Procs :
       (config.advisory_lock_strategy = "Namespaced" /\ Awaits(p, "release")
          /\ fails' = fails) =>
         /\ stmts'[p] = Append(stmts[p], "unlock")
         /\ pc'[p] = "commit" /\ txn'[p] = "open"]_vars

\* C17: once the transaction of a find_or_create_by_path call that used the
\* Namespaced lock has ended (committed or rolled back) and the call has
\* returned, the session of that call no longer holds the advisory lock, also
\* when the release statement failed, so a later caller can acquire it.
LockFreeAfterTransaction ==
  config.advisory_lock_strategy = "Namespaced" =>
    \A p \in Procs :
      (pc[p] = "idle" /\ txn[p] \in {"committed", "rolledback"}) => held[p] = 0

\* Caller p's call is cancelled in this step, after its transaction began.
Cancelled(p) == txn[p] = "open" /\ pc'[p] = "idle" /\ result'[p].kind = "Cancelled"

\* The transaction of caller p is rolled back in this step: nothing it wrote
\* is committed, now or later.
RolledBack(p) ==
  /\ txn'[p] = "rolledback" /\ txNodes'[p] = {} /\ txHier'[p] = {}
  /\ nodes' = nodes /\ hierarchy' = hierarchy

\* C18 as stated: a call cancelled at any await point after its transaction
\* began (a lookup, an insert, the release, the commit before it completes) has
\* its transaction rolled back; none of its rows becomes committed.
CancelRollsBack ==
  [][\A p \in Procs : Cancelled(p) => RolledBack(p)]_vars

\* C18: a call cancelled at any await point after its transaction began and
\* before its COMMIT statement has reached the store has its transaction rolled
\* back: none of the node or hierarchy rows it inserted becomes committed.
CancelBeforeCommitRollsBack ==
  [][\A p \in Procs :
       (Cancelled(p) /\ ~Awaits(p, "commit")) => RolledBack(p)]_vars

\* C18 witness: a call cancelled after it inserted a node and its closure rows,
\* with nothing of it committed.
CancelWitness ==
  \E p \in Procs :
    /\ pc[p] = "idle" /\ result[p].kind = "Cancelled" /\ txn[p] = "rolledback"
    /\ Issued(p, "insert_hierarchy") /\ ~Issued(p, "commit")
    /\ nodes = {} /\ hierarchy = {} /\ nextId > 1

\* C19: on a connection whose backend is not PostgreSQL every public
\* operation (parent, children, roots, descendants, self_and_descendants,
\* find_by_path, find_or_create_by_path), whatever its argument, returns
\* UnsupportedBackend with no statement issued, no transaction begun and no
\* lock acquired, and leaves the tables unchanged.
UnsupportedBackendRejected ==
  /\ [](\A p \in Procs :
          backend[p] # "Postgres" =>
            /\ pc[p] = "idle" /\ result[p] = Err("UnsupportedBackend")
            /\ stmts[p] = <<>> /\ txn[p] = "none")
  /\ [][(calls' = calls + 1 /\ \E p \in Procs : pc[p] = "idle" /\ backend'[p] # "Postgres") =>
         (nodes' = nodes /\ hierarchy' = hierarchy /\ held' = held /\ nextId' = nextId
            /\ txn' = [p \in Procs |-> IF pc[p] = "idle" /\ backend'[p] # "Postgres"
                                        THEN "none" ELSE txn[p]])]_vars
  /\ [][(reads' = reads + 1 /\ readRes'.db # "Postgres") =>
         /\ readRes'.kind = "UnsupportedBackend"
         /\ readRes'.queries = 0 /\ readRes'.lookups = 0 /\ readRes'.out = <<>>
         /\ nodes' = nodes /\ hierarchy' = hierarchy /\ held' = held /\ txn' = txn
         /\ stmts' = stmts]_vars

\* C19 witness: on tables that hold nodes, a find_or_create_by_path call with
\* segments and a read-only operation on a node have both been given a
\* connection of another backend and returned UnsupportedBackend.
UnsupportedBackendWitness ==
  /\ nodes # {}
  /\ \E p \in Procs : /\ backend[p] # "Postgres" /\ segments[p] # <<>>
                       /\ result[p].kind = "UnsupportedBackend"
  /\ readRes.op = "self_and_descendants" /\ readRes.db # "Postgres"
  /\ readRes.kind = "UnsupportedBackend"

\* The statements of the walk: child lookups, node inserts, ancestor queries
\* and closure-row inserts.
WalkStatements == {"select_child", "insert_node", "select_ancestors", "insert_hierarchy"}

\* C20: with lock strategy Disabled a find_or_create_by_path call issues no
\* lock-acquire and no lock-release statement, in acquire, commit or rollback:
\* its statements are begin, the statements of the walk, and one commit or
\* rollback that ends it; the lock is never held.
NoLockWhenDisabled ==
  /\ [](config.advisory_lock_strategy = "Disabled" =>
          \A p \in Procs :
            /\ ~Issued(p, "lock") /\ ~Issued(p, "unlock") /\ held[p] = 0
            /\ \A i \in 1..Len(stmts[p]) :
                 /\ i = 1 => stmts[p][i] = "begin"
                 /\ (i > 1 /\ i < Len(stmts[p])) => stmts[p][i] \in WalkStatements
                 /\ (i > 1 /\ i = Len(stmts[p])) =>
                      stmts[p][i] \in WalkStatements \cup {"commit", "rollback"}
            /\ (pc[p] = "idle" /\ Len(stmts[p]) > 1) =>
                 stmts[p][Len(stmts[p])] \in {"commit", "rollback"})
  /\ [][config.advisory_lock_strategy = "Disabled" =>
          \A p \in Procs :
            /\ (Awaits(p, "begin") /\ pc'[p] # "idle") => pc'[p] = "lookup"
            /\ pc'[p] \notin {"acquire", "release", "rb_release"}]_vars

\* C20 witness: with the lock Disabled, one call has created a node and
\* committed, and another has failed in its walk and rolled back.
NoLockWitness ==
  /\ config.advisory_lock_strategy = "Disabled"
  /\ \E p \in Procs :
       /\ pc[p] = "idle" /\ result[p].kind = "Ok"
       /\ stmts[p] = <<"begin", "select_child", "insert_node", "insert_hierarchy", "commit">>
  /\ \E p \in Procs :
       /\ pc[p] = "idle" /\ result[p].kind = "Database"
       /\ stmts[p] = <<"begin", "select_child", "rollback">>

\* The ids a read-only operation returned.
ReadIds(r) ==
  CASE r.op = "find_by_path" -> ({r.out} \cup {r.matched[i] : i \in 1..Len(r.matched)}) \ {NoId}
    [] r.op = "parent" -> {r.out} \ {NoId}
    [] OTHER -> {r.out[i] : i \in 1..Len(r.out)}

\* Some caller holds the tree lock inside find_or_create_by_path, with rows
\* written and not committed.
LockHeldInCall ==
  \E p \in Procs : held[p] > 0 /\ txn[p] = "open" /\ txNodes[p] # {}

\* C21: the read-only operations (parent, children, roots, descendants,
\* self_and_descendants, find_by_path) never acquire the tree lock and never
\* insert, update or delete a row; they return committed rows only; and they
\* can complete while another caller holds the tree lock inside
\* find_or_create_by_path.
ReadsTakeNoLock ==
  /\ [][(reads' = reads + 1) =>
         /\ held' = held /\ stmts' = stmts /\ txn' = txn /\ pc' = pc
         /\ nodes' = nodes /\ hierarchy' = hierarchy /\ nextId' = nextId
         /\ txNodes' = txNodes /\ txHier' = txHier
         /\ (readRes'.kind = "Ok" => ReadIds(readRes') \subseteq {m.id : m \in nodes})]_vars
  /\ []((reads < MaxReads /\ LockHeldInCall) =>
          /\ ENABLED (\E segs \in Paths : FindByPath(segs, "Postgres"))
          /\ ENABLED Roots("Postgres")
          /\ \A m \in nodes :
               /\ ENABLED Parent(m.id, "Postgres")
               /\ ENABLED Children(m.id, "Postgres")
               /\ ENABLED Descendants(m.id, "Postgres")
               /\ ENABLED SelfAndDescendants(m.id, "Postgres"))

\* C21 witness: roots() has returned the one committed root while another
\* caller held the lock with a root inserted and not committed.
ReadsWitness ==
  /\ readRes.op = "roots" /\ readRes.kind = "Ok" /\ Len(readRes.out) = 1
  /\ readRes.at = Cardinality(nodes)
  /\ \E p \in Procs :
       /\ held[p] > 0 /\ txn[p] = "open"
       /\ \E m \in txNodes[p] : m.parent_id = NoId

\* The configuration has been constructed.
Built == config.advisory_lock_key # <<>>

\* A lower-case hexadecimal digit.
IsHexChar(c) == c \in 48..57 \/ c \in 97..102

\* C22: the default lock key derived for (entity, hierarchy) has exactly the
\* form "<entity>::<hierarchy>::<hash>", where <hash> is exactly 8 hexadecimal
\* digits, and is the same for the same names.
KeyFormat ==
  Built =>
    LET key == config.advisory_lock_key
        e == config.entity_name
        h == config.hierarchy_name
    IN /\ key = derived_from(e, h)
       /\ Len(key) = Len(e) + 2 + Len(h) + 2 + 8
       /\ SubSeq(key, 1, Len(e)) = e
       /\ SubSeq(key, Len(e) + 1, Len(e) + 2) = KeySeparator
       /\ SubSeq(key, Len(e) + 3, Len(e) + 2 + Len(h)) = h
       /\ SubSeq(key, Len(e) + Len(h) + 3, Len(e) + Len(h) + 4) = KeySeparator
       /\ \A i \in (Len(key) - 7)..Len(key) : IsHexChar(key[i])

\* C22, what the key looks like: "closure-tree::<entity>::<hierarchy>::<hash>",
\* where <hash> is 1 to 8 hexadecimal digits with no leading zero.
KeyFormatWithPrefix ==
  Built =>
    LET key == config.advisory_lock_key
        e == config.entity_name
        h == config.hierarchy_name
        at == Len(KeyPrefix) + Len(e) + Len(h) + 4
        hash == SubSeq(key, at + 1, Len(key))
    IN /\ key = derived_from(e, h)
       /\ SubSeq(key, 1, at) = KeyPrefix \o e \o KeySeparator \o h \o KeySeparator
       /\ Len(hash) \in 1..8
       /\ \A i \in 1..Len(hash) : IsHexChar(hash[i])
       /\ Len(hash) > 1 => hash[1] # 48

\* C22, the width of the hash alone: what follows the last "::" is exactly 8
\* characters.
KeyHashEightDigits ==
  Built =>
    Len(config.advisory_lock_key)
      = Len(KeyPrefix) + Len(config.entity_name) + Len(config.hierarchy_name) + 4 + 8

\* The number of statements s among the round trips of p's call.
CountIssued(p, s) == Cardinality({i \in 1..Len(stmts[p]) : stmts[p][i] = s})

\* Caller p is inside the for loop of find_or_create_by_path_on.
InLoop(p) == pc[p] \in {"lookup", "insert", "ancestors", "hier"}

\* Segments 1..k of p's call have resolved: current_parent is a node p's
\* transaction sees, with its self row, whose parent_id chain spells them.
Resolved(p, k) ==
  IF k = 0
    THEN current_parent[p] = NoId
    ELSE /\ \E m \in VisibleNodes(p) : m.id = current_parent[p]
         /\ hierarchy_build_row(current_parent[p], current_parent[p], 0) \in VisibleHier(p)
         /\ PathIn(VisibleNodes(p), current_parent[p]) = SubSeq(segments[p], 1, k)

\* C23: within one find_or_create_by_path call the segments are processed
\* strictly in order.  While the call is at segment i, segments 1..i-1 have
\* resolved (each found, or inserted together with its closure rows), exactly
\* one lookup was issued for each of them, and the lookup for segment i is
\* issued with the id of the node resolved for segment i-1 as the parent
\* filter.  A step moves to segment i+1 only by resolving segment i: a lookup
\* that found a child of the parent filter, or the insert of the closure rows
\* of the node just created; no other step changes the segment or the parent.
SegmentsInOrder ==
  /\ [](\A p \in Procs :
          InLoop(p) =>
            /\ idx[p] \in 1..Len(segments[p])
            /\ Resolved(p, idx[p] - 1)
            /\ CountIssued(p, "select_child")
                 = IF pc[p] = "lookup" THEN idx[p] - 1 ELSE idx[p])
  /\ [][\A p \in Procs :
          (InLoop(p) /\ InLoop(p)') =>
            IF idx'[p] # idx[p]
              THEN /\ idx'[p] = idx[p] + 1
                   /\ pc'[p] = "lookup"
                   /\ pc[p] \in {"lookup", "hier"}
                   /\ pc[p] = "lookup" =>
                        \E m \in VisibleNodes(p) :
                          /\ m.id = current_parent'[p]
                          /\ m.parent_id = current_parent[p]
                          /\ m.name = segments[p][idx[p]]
                   /\ pc[p] = "hier" =>
                        /\ current_parent'[p] = created[p]
                        /\ rows[p] \subseteq txHier'[p]
                        /\ hierarchy_build_row(created[p], created[p], 0) \in txHier'[p]
              ELSE current_parent'[p] = current_parent[p]]_vars

\* C23 witness: a call with three segments is about to look up its third
\* segment, having found the first in the committed table and inserted the
\* second.
SegmentsWitness ==
  \E p \in Procs :
    /\ pc[p] = "lookup" /\ idx[p] = 3
    /\ CountIssued(p, "select_child") = 2
    /\ CountIssued(p, "insert_node") = 1
    /\ \E m \in txNodes[p] : m.id = current_parent[p] /\ m.parent_id \in {n.id : n \in nodes}

\* C24: LockedTransaction::rollback attempts the lock release first, ignores
\* a failure of that release, always goes on to roll the transaction back, and
\* returns the rollback's own error when the rollback fails.
\*  - its first round trip is the unlock; whether the unlock took effect or
\*    failed, the transaction stays open, nothing is returned yet, and the
\*    next round trip is the rollback;
\*  - the rollback round trip ends the transaction without committing and
\*    only then rollback returns: Ok, or the error of txn.rollback();
\*  - a rollback that has returned issued the unlock and then the rollback as
\*    its last two round trips.
RollbackReleasesThenRollsBack ==
  /\ [][\A p \in Procs :
          /\ Awaits(p, "rb_release") =>
               /\ stmts'[p] = Append(stmts[p], "unlock")
               /\ pc'[p] = "rollback"
               /\ txn'[p] = "open"
               /\ guard_result'[p] = "none"
               /\ held'[p] \in {held[p], held[p] - 1}
          /\ Awaits(p, "rollback") =>
               /\ stmts'[p] = Append(stmts[p], "rollback")
               /\ txn'[p] = "rolledback"
               /\ nodes' = nodes /\ hierarchy' = hierarchy
               /\ guard_result'[p] \in {"Ok", "Database"}
               /\ pc'[p] = "idle"
          /\ (err[p] # "none" /\ guard_result'[p] # guard_result[p]) =>
               pc[p] = "rollback"]_vars
  /\ [](\A p \in Procs :
          (err[p] # "none" /\ pc[p] = "rollback") =>
            /\ txn[p] = "open"
            /\ config.advisory_lock_strategy = "Namespaced" =>
                 stmts[p][Len(stmts[p])] = "unlock")

\* C24 witness: a walk failed, the release in rollback failed too and was
\* ignored (the lock is still held), the rollback was issued and failed, and
\* rollback returned that error; the transaction is not committed.
RollbackWitness ==
  \E p \in Procs :
    /\ pc[p] = "idle" /\ result[p].kind = "Database"
    /\ Len(stmts[p]) >= 2
    /\ SubSeq(stmts[p], Len(stmts[p]) - 1, Len(stmts[p])) = <<"unlock", "rollback">>
    /\ held[p] > 0
    /\ guard_result[p] = "Database"
    /\ txn[p] = "rolledback"

\* C25: in every committed state, whatever calls are in flight or have
\* failed, every node row has its self-edge (n, n, 0) and, for each edge
\* (a, parent of n, g), the edge (a, n, g + 1): its complete set of ancestor
\* edges.  A node and its closure rows become visible in the same step: a step
\* that adds a node to the committed table adds all the rows of that node with
\* it, and no step adds a row whose descendant was committed before.
VisibleTogether ==
  /\ [](\A n \in nodes :
          /\ hierarchy_build_row(n.id, n.id, 0) \in hierarchy
          /\ n.parent_id # NoId =>
               /\ \E m \in nodes : m.id = n.parent_id
               /\ \A h \in hierarchy :
                    h.descendant_id = n.parent_id =>
                      hierarchy_build_row(h.ancestor_id, n.id, h.generations + 1) \in hierarchy)
  /\ [][/\ \A h \in hierarchy' \ hierarchy :
              \E n \in nodes' \ nodes : n.id = h.descendant_id
        /\ \A n \in nodes' \ nodes :
              \E h \in hierarchy' \ hierarchy : h.descendant_id = n.id /\ h.generations = 0]_vars

\* C25 witness: a committed node has a committed parent while another call,
\* whose closure-row insert has failed, still has its transaction open with a
\* node inserted and none of that node's closure rows.
VisibleTogetherWitness ==
  /\ \E h \in hierarchy : h.generations = 1
  /\ \E q \in Procs :
       /\ pc[q] \in {"rb_release", "rollback"} /\ txn[q] = "open"
       /\ \E n \in txNodes[q] : ~ \E h \in txHier[q] : h.descendant_id = n.id

\* The transaction of p's call has ended.
Ended(p) == txn[p] \in {"committed", "rolledback"}

\* C26: the transaction lifecycle of find_or_create_by_path.
\*  - the call returns Ok(node) only with its transaction committed: the
\*    commit round trip precedes the return, and the node returned is in the
\*    committed table;
\*  - a transaction goes from open to exactly one of committed or rolled back,
\*    in the step in which the call returns, and never changes after that
\*    (the next call of the caller starts without one); a call that opened a
\*    transaction has ended it when it returns;
\*  - a call that returns an error without having reached txn.commit() (an
\*    error of the walk or of the lock release) has its transaction rolled
\*    back, not committed.
TransactionLifecycle ==
  /\ [](\A p \in Procs :
          pc[p] = "idle" =>
            /\ result[p].kind = "Ok" =>
                 /\ txn[p] = "committed"
                 /\ stmts[p][Len(stmts[p])] = "commit"
                 /\ \E n \in nodes : n.id = result[p].id
            /\ Issued(p, "begin") /\ result[p].kind # "none" =>
                 \/ Ended(p)
                 \/ stmts[p] = <<"begin">> /\ txn[p] = "none"
            /\ (result[p].kind \notin {"Ok", "none"} /\ ~Issued(p, "commit")) =>
                 txn[p] \in {"none", "rolledback"})
  /\ [][\A p \in Procs :
          txn'[p] # txn[p] =>
            \/ txn[p] = "none" /\ txn'[p] = "open" /\ pc[p] = "begin"
            \/ txn[p] = "open" /\ Ended(p)' /\ pc'[p] = "idle"
            \/ Ended(p) /\ txn'[p] = "none" /\ pc[p] = "idle" /\ calls' = calls + 1]_vars

\* C26 witness: one call has returned Ok with its transaction committed, and
\* another has returned the error of a failed lock release, after a walk that
\* inserted a node, with its transaction rolled back.
TransactionLifecycleWitness ==
  \E p, q \in Procs :
    /\ pc[p] = "idle" /\ result[p].kind = "Ok" /\ txn[p] = "committed"
    /\ pc[q] = "idle" /\ result[q].kind = "Database" /\ txn[q] = "rolledback"
    /\ Issued(q, "insert_node") /\ stmts[q][Len(stmts[q])] = "unlock"

\* C27: find_or_create_by_path only adds rows.  No step of any call, whether
\* the call succeeds or fails, removes or changes a committed row: every
\* committed node row (id, parent_id, name) and hierarchy row (ancestor,
\* descendant, generations) is still there after the step, and a row the step
\* adds has a fresh id (a fresh descendant) that no committed row carried.
OnlyAddsRows ==
  [][/\ nodes \subseteq nodes'
     /\ hierarchy \subseteq hierarchy'
     /\ \A n \in nodes' \ nodes : ~ \E m \in nodes : m.id = n.id
     /\ \A h \in hierarchy' \ hierarchy :
          ~ \E g \in hierarchy : g.ancestor_id = h.ancestor_id /\ g.descendant_id = h.descendant_id
     /\ \A p \in Procs :
          (pc[p] # "idle" /\ pc'[p] = "idle" /\ result'[p].kind # "Ok") =>
            nodes' = nodes /\ hierarchy' = hierarchy]_vars

\* C27 witness: one call has committed a path of two nodes; a later call found
\* the first of them, inserted a node under it, failed and returned an error,
\* and the two nodes and their three rows are what is committed.
OnlyAddsRowsWitness ==
  /\ Cardinality(nodes) = 2 /\ Cardinality(hierarchy) = 3
  /\ \E p, q \in Procs :
       /\ pc[p] = "idle" /\ result[p].kind = "Ok" /\ CountIssued(p, "insert_node") = 2
       /\ pc[q] = "idle" /\ result[q].kind = "Database"
       /\ CountIssued(q, "select_child") = 2 /\ CountIssued(q, "insert_node") = 1

\* C28: find_or_create_by_path never returns ClosureTreeError::Invariant.
\*  - no call returns it, and no walk ends with it on the way to rollback;
\*  - a call with no segments returns EmptyPath (or UnsupportedBackend) before
\*    any walk: a caller inside the walk has at least one segment;
\*  - a walk that got through its last segment without a store error has a
\*    current node, one its transaction sees, named by the last segment.
InvariantUnreachable ==
  \A p \in Procs :
    /\ result[p].kind # "Invariant"
    /\ err[p] # "Invariant"
    /\ pc[p] # "idle" => segments[p] # <<>>
    /\ (pc[p] = "idle" /\ segments[p] = <<>> /\ result[p].kind # "none") =>
         result[p].kind \in {"EmptyPath", "UnsupportedBackend"}
    /\ pc[p] \in {"release", "commit"} =>
         \E m \in VisibleNodes(p) :
           m.id = current[p] /\ m.name = segments[p][Len(segments[p])]

\* C28 witness: one call with no segments has returned EmptyPath and one walk
\* of three segments has ended with a current node and returned it.
InvariantUnreachableWitness ==
  \E p, q \in Procs :
    /\ pc[p] = "idle" /\ segments[p] = <<>> /\ result[p].kind = "EmptyPath"
    /\ pc[q] = "idle" /\ Len(segments[q]) = 3 /\ result[q].kind = "Ok"

\* C29: with the Namespaced lock and a store that never fails, every one of a
\* finite set of concurrent find_or_create_by_path calls eventually returns.
\*  - a call that has started eventually returns;
\*  - a caller waiting for the lock eventually holds it;
\*  - no interleaving deadlocks: while any call is in flight, some call can
\*    take its next step.
CallsReturn ==
  /\ \A p \in Procs : (pc[p] # "idle") ~> (pc[p] = "idle" /\ result[p].kind = "Ok")
  /\ \A p \in Procs : (pc[p] = "acquire") ~> (held[p] > 0)
  /\ []((\E p \in Procs : pc[p] # "idle") => \E q \in Procs : ENABLED StepOk(q))

\* C29 witness: a caller is blocked in pg_advisory_lock while another call,
\* which has inserted a node, holds the lock.
CallsReturnWitness ==
  \E p, q \in Procs :
    /\ p # q
    /\ config.advisory_lock_strategy = "Namespaced"
    /\ pc[q] = "acquire"
    /\ held[p] > 0 /\ txNodes[p] # {}
    /\ ~ENABLED StepOk(q)

====
